---- MODULE Spec2Model ----
(***************************************************************************)
(* InstaBio service worker (static/sw.js): the offline upload queue kept   *)
(* in IndexedDB ('instabio-offline' / 'offlineQueue') and its drain,       *)
(* uploadQueuedChunks, started by Background Sync events.                  *)
(*                                                                         *)
(* Every await of uploadQueuedChunks is a step boundary: other drains,     *)
(* the recording page, the network and the browser may act in between.     *)
(***************************************************************************)
EXTENDS Naturals, Integers, Sequences, FiniteSets, TLC

\* ------------------------------------------------------------------ bounds
\* Number of chunks the recording page enqueues in one behaviour.
MaxEnq == 2
\* Number of uploadQueuedChunks invocations that may be in progress at once.
MaxDrains == 2

\* Number of chunks the capture pipeline seals in one behaviour.
MaxChunks == 2
\* Seconds of audio that reach the buffer in one capture step.
TickSeconds == 10
\* The configured chunk duration, in seconds.
ChunkDuration == 30

Drains == 1..MaxDrains
SeqNos == 0..(MaxChunks - 1)

\* A pathname as the sequence of its segments: '/' is <<"">>, '/share/' is
\* <<"share", "">>, '/share/abc' is <<"share", "abc">>.
Root == <<"">>
Onboard == <<"onboard">>
Paths ==
    {Root, Onboard, <<"index.html">>, <<"onboard", "">>, <<"record">>, <<"vault">>,
     <<"share">>, <<"share", "">>, <<"share", "abc">>, <<"shared">>}
Versions == {"old", "new"}
TokenKey == "instabio_token"
SessionKeys == {TokenKey, "instabio_name", "instabio_user_id"}
LogoutOutcomes == {"ok", "error-status", "rejected"}

CACHE_NAME == "instabio-v6"
\* A cache an earlier version of the worker left behind.
OldCache == "instabio-v1"
CacheNames == {CACHE_NAME, OldCache}
ApiPath == <<"api", "health">>
\* STATIC_ASSETS (three of its entries).
STATIC_ASSETS == {Root, <<"record">>, <<"static", "shared.js">>}
\* Paths requested: precached ones, a page and an asset that are not, an API path.
ReqPaths == STATIC_ASSETS \cup {<<"share", "abc">>, <<"static", "app.css">>, ApiPath}
\* What caches hold before this worker installs.
SeedPaths == {ApiPath, <<"share", "abc">>}
\* request.mode
Modes == {"navigate", "no-cors"}
\* How a fetch ends: it rejects, or resolves with a 200 basic response, a
\* non-200 response, or a response of another type (opaque, cors).
FetchOutcomes == {"rejects", "ok-basic", "not-200", "not-basic"}
NoFetch == [stage |-> "none"]
NoResp == [by |-> "none"]
NoEntry == <<"(no entry)">>

\* A string of i18n.js as the sequence of its characters.
En == <<"e", "n">>
SUPPORTED_LANGS == {En, <<"e", "s">>, <<"z", "h">>, <<"h", "i">>, <<"a", "r">>}
RTL_LANGS == {<<"a", "r">>}
\* null / undefined / not set.
NoValue == <<"(none)">>
\* Values met as a stored preference or as an argument of setLanguage.
LangInputs ==
    SUPPORTED_LANGS \cup {<<"f", "r">>, <<"E", "S">>, <<"e", "n", "-", "U", "S">>, <<>>, NoValue}
\* Values of navigator.language.
NavLangs ==
    {<<"e", "s", "-", "M", "X">>, <<"Z", "H", "-", "c", "n">>, <<"f", "r", "-", "F", "R">>,
     <<"a", "r">>, <<"h">>, <<>>, NoValue}
Ids == 1..MaxEnq
Sessions == {"sA", "sB"}
\* event.tag values a sync event may carry (sw.js:132 compares against UploadTag).
NetStates == {"offline", "error", "bare200", "up"}
UploadTag == "upload-audio-chunks"
Tags == {UploadTag, "other-tag"}

VARIABLES
    offlineQueue, \* object store 'offlineQueue': key (id) -> stored record
    nextId,     \* the store's key generator (autoIncrement)
    seqOf,      \* id -> [session, seq]: the chunk each record was sealed from
    net,        \* what a fetch meets: "offline" (it rejects), "error" (a non-OK
                \* status), "bare200" (an OK status with no acknowledgment of the
                \* chunk), "up" (an OK status acknowledging durable receipt)
    dbUp,       \* whether IndexedDB requests succeed
    pc,         \* per drain: position in uploadQueuedChunks
    items,      \* per drain: the array read by getAllFromStore
    idx,        \* per drain: index of the loop's current item
    attempted,  \* per drain: ids whose upload this run has started, in order
    result,     \* per drain: state of the promise the last run returned
    tagOf,      \* per drain: tag of the sync event the run was started for
    extended,   \* drains whose promise was handed to event.waitUntil and is pending
    delPending, \* ids with a delete request issued on an uncommitted transaction
    req,        \* per drain: the request of the fetch in progress
    cooling     \* the id whose attempt failed last with no clock tick since (0: none)

\* The capture pipeline of the recording page (one session).
VARIABLES
    alive,      \* whether the capture process is running
    lifecycle,  \* Session State Machine: "Ready", "Recording", "Interrupted", "Ended"
    reason,     \* reason code of the current interruption
    userPaused, \* whether the user explicitly paused
    cause,      \* what drove the last lifecycle transition
    ext,        \* external condition in force: "none", "input-lost", "backgrounded"
    diskOk,     \* whether writes to the Durable Local Store succeed
    nextSeq,    \* Chunk Assembler: sequence number of the next chunk to seal
    meta,       \* sequence numbers of the sealed chunks in the session metadata
    local,      \* sequence numbers whose payload is in the Durable Local Store
    buffered,   \* seconds of audio captured and not yet sealed
    elapsed,    \* seconds of audio captured so far
    sealedDur,  \* cumulative duration of the sealed chunks
    pendingQ,   \* sequence numbers with a Queue Entry (awaiting upload)
    confirmed,  \* sequence numbers the remote endpoint has confirmed
    gaps        \* sequence numbers the last reconciliation reported missing

\* A page that loads shared.js (the auth guard and instabioLogout).
VARIABLES
    version,    \* which shared.js the page loads: "old" (static/shared.js) or "new"
    path,       \* window.location.pathname, as the segments after each '/'
    storage,    \* the keys present in localStorage
    pagePc,     \* "loading" (scripts not yet run), "ready", "logout" (awaiting fetch)
    lastNav,    \* what set the location last: "user", "guard" or "logout"
    lastLogout  \* how the server call of the last logout ended

\* A page that loads i18n.js.
VARIABLES
    savedLang,    \* localStorage 'instabio_lang' (NoValue: absent)
    navLang,      \* navigator.language (NoValue: undefined)
    currentLang,  \* _currentLang
    translations, \* the language whose file _translations holds (NoValue: {})
    docLang,      \* document.documentElement.lang as i18n.js set it (NoValue: not yet)
    docDir,       \* document.documentElement.dir as i18n.js set it ("unset": not yet)
    pageText,     \* the language of the text the translatable elements show
                  \* (NoValue: the text of the markup)
    lastLoad,     \* how the last loadTranslations ended: "none", "ok", "failed"
    domReady,     \* whether the auto-init ran setLanguage
    loading       \* languages whose translation file is being fetched

\* The service worker's install, activate and fetch handlers.
VARIABLES
    swPhase,    \* "installing", "installed", "activating", "active" or "redundant"
    cleanup,    \* activate: each cache name handed to caches.delete -> "pending"/"done"
    caches,     \* CacheStorage: name of each existing cache -> the paths it holds
    fe,         \* the fetch event being answered (NoFetch: none)
    resp,       \* the last response a page received (NoResp: none yet)
    putPending  \* paths whose cache.put was started and has not finished

uploadVars == <<offlineQueue, nextId, seqOf, net, dbUp, pc, items, idx, attempted, result,
                tagOf, extended, delPending, req, cooling>>

machineVars == <<lifecycle, reason, userPaused, cause, ext>>

storeVars == <<nextSeq, meta, local, buffered, elapsed, sealedDur, pendingQ, confirmed, gaps>>

captureVars == <<alive, machineVars, diskOk, storeVars>>

\* What the service worker's upload code never touches, and what the capture
\* pipeline never touches.
pageVars == <<version, path, storage, pagePc, lastNav, lastLogout>>

langVars ==
    <<savedLang, navLang, currentLang, translations, docLang, docDir, pageText, lastLoad,
      domReady, loading>>

cacheVars == <<swPhase, cleanup, caches, fe, resp, putPending>>

notUploadVars == <<captureVars, pageVars, langVars, cacheVars>>

notCaptureVars == <<uploadVars, pageVars, langVars, cacheVars>>

notPageVars == <<uploadVars, captureVars, langVars, cacheVars>>

notLangVars == <<uploadVars, captureVars, pageVars, cacheVars>>

notCacheVars == <<uploadVars, captureVars, pageVars, langVars>>

vars == <<uploadVars, captureVars, pageVars, langVars, cacheVars>>

drainVars == <<pc, items, idx, attempted, result, tagOf, extended, req>>

NoRequest == [method |-> "none"]

\* ------------------------------------------------------------- pure helpers
Min(S) == CHOOSE x \in S : \A y \in S : x <= y
Max(S) == CHOOSE x \in S : \A y \in S : x >= y

RECURSIVE AscendingKeys(_)
AscendingKeys(S) ==
    IF S = {} THEN <<>> ELSE <<Min(S)>> \o AscendingKeys(S \ {Min(S)})

RECURSIVE DescendingKeys(_)
DescendingKeys(S) ==
    IF S = {} THEN <<>> ELSE <<Max(S)>> \o DescendingKeys(S \ {Max(S)})

Range(s) == {s[i] : i \in 1..Len(s)}

\* IDBObjectStore.getAll(): every record of the store, in ascending key order.
GetAllReversed(store) ==
    [i \in 1..Cardinality(DOMAIN store) |-> store[DescendingKeys(DOMAIN store)[i]]]

getAllFromStore(store) ==
    [i \in 1..Cardinality(DOMAIN store) |-> store[AscendingKeys(DOMAIN store)[i]]]

\* The POST built at sw.js:149-156: the session in the URL, the stored bearer
\* token, and one multipart field 'audio' holding the blob under its filename.
BuildRequestNoFilename(item) ==
    [url |-> <<"/api/session", item.sessionUuid, "chunk">>,
     method |-> "POST",
     authorization |-> <<"Bearer", item.token>>,
     audio |-> item.blob]

\* Every chunk is posted to one session's endpoint.
BuildRequestOneSession(item) ==
    [url |-> <<"/api/session", "sA", "chunk">>,
     method |-> "POST",
     authorization |-> <<"Bearer", item.token>>,
     audio |-> item.blob,
     filename |-> item.filename]

BuildRequest(item) ==
    [url |-> <<"/api/session", item.sessionUuid, "chunk">>,
     method |-> "POST",
     authorization |-> <<"Bearer", item.token>>,
     audio |-> item.blob,
     filename |-> item.filename]

CurItem(d) == items[d][idx[d]]

\* String.prototype.slice(0, 2)
Slice2(str) == SubSeq(str, 1, Min({2, Len(str)}))

LowerChar(c) ==
    CASE c = "E" -> "e"
      [] c = "S" -> "s"
      [] c = "Z" -> "z"
      [] c = "H" -> "h"
      [] c = "F" -> "f"
      [] c = "R" -> "r"
      [] c = "M" -> "m"
      [] c = "X" -> "x"
      [] c = "U" -> "u"
      [] OTHER -> c

\* String.prototype.toLowerCase()
ToLowerCase(str) == [i \in 1..Len(str) |-> LowerChar(str[i])]

\* (navigator.language || '')
OrEmpty(v) == IF v = NoValue THEN <<>> ELSE v

\* getPreferredLang: the saved preference if supported, else the browser
\* language's first two characters in lower case if supported, else 'en'.
getPreferredLang(saved, nav) ==
    IF saved # NoValue /\ saved # <<>> /\ saved \in SUPPORTED_LANGS THEN saved
    ELSE IF ToLowerCase(Slice2(OrEmpty(nav))) \in SUPPORTED_LANGS
         THEN ToLowerCase(Slice2(OrEmpty(nav)))
         ELSE En

\* setLanguage keeps whatever it is given.
NormalizeLangKeeps(lang) == lang

\* setLanguage: if (!SUPPORTED_LANGS.includes(lang)) lang = 'en';
NormalizeLang(lang) == IF lang \in SUPPORTED_LANGS THEN lang ELSE En

\* ------------------------------------------------------------------- Init
UploadInit ==
    /\ offlineQueue = <<>>
    /\ nextId = 1
    /\ seqOf = <<>>
    /\ net = "up"
    /\ dbUp = TRUE
    /\ pc = [d \in Drains |-> "idle"]
    /\ items = [d \in Drains |-> <<>>]
    /\ idx = [d \in Drains |-> 1]
    /\ attempted = [d \in Drains |-> <<>>]
    /\ result = [d \in Drains |-> "none"]
    /\ tagOf = [d \in Drains |-> "none"]
    /\ extended = {}
    /\ delPending = {}
    /\ req = [d \in Drains |-> NoRequest]
    /\ cooling = 0

\* A started capture process with a fresh session: nothing captured or sealed.
CaptureInit ==
    /\ alive = TRUE
    /\ lifecycle = "Ready"
    /\ reason = "none"
    /\ userPaused = FALSE
    /\ cause = "none"
    /\ ext = "none"
    /\ diskOk = TRUE
    /\ nextSeq = 0
    /\ meta = {}
    /\ local = {}
    /\ buffered = 0
    /\ elapsed = 0
    /\ sealedDur = 0
    /\ pendingQ = {}
    /\ confirmed = {}
    /\ gaps = {}

\* A page at any location, with any of the session keys stored, about to
\* run its scripts.
PageInit ==
    /\ version \in Versions
    /\ path \in Paths
    /\ storage \in SUBSET SessionKeys
    /\ pagePc = "loading"
    /\ lastNav = "user"
    /\ lastLogout = "none"

PageQuiet ==
    /\ version = "new"
    /\ path = Root
    /\ storage = {}
    /\ pagePc = "loading"
    /\ lastNav = "user"
    /\ lastLogout = "none"

\* i18n.js evaluated (its IIFE ran up to the auto-init): the current
\* language is the preferred one, nothing loaded or applied yet.
LangInit ==
    /\ savedLang \in LangInputs
    /\ navLang \in NavLangs
    /\ currentLang = getPreferredLang(savedLang, navLang)
    /\ translations = NoValue
    /\ docLang = NoValue
    /\ docDir = "unset"
    /\ pageText = NoValue
    /\ lastLoad = "none"
    /\ domReady = FALSE
    /\ loading = {}

LangQuiet ==
    /\ savedLang = NoValue
    /\ navLang = NoValue
    /\ LangInit

\* A worker about to install, next to whatever caches the origin has.
CacheInit ==
    /\ swPhase = "installing"
    /\ cleanup = <<>>
    /\ \E names \in SUBSET CacheNames : caches \in [names -> SUBSET SeedPaths]
    /\ fe = NoFetch
    /\ resp = NoResp
    /\ putPending = {}

CacheQuiet ==
    /\ caches = <<>>
    /\ CacheInit

Init ==
    /\ UploadInit
    /\ CaptureInit
    /\ PageQuiet
    /\ LangQuiet
    /\ CacheQuiet

\* ------------------------------------------------- the recording page
\* The page stores one record per sealed chunk in 'offlineQueue'. The store's
\* key generator (sw.js:179, autoIncrement) hands out ascending ids; the
\* chunk's sequence number is the count of chunks already sealed for its
\* session, and the token is the one the session's owner holds.
SealedOf(s) == {i \in DOMAIN seqOf : seqOf[i].session = s}

TokenOf(s) == <<"token", s>>

Enqueue(s) ==
    /\ nextId <= MaxEnq
    /\ dbUp
    /\ LET seq == Cardinality(SealedOf(s))
           rec == [id |-> nextId, blob |-> <<s, seq>>, filename |-> <<"chunk", seq>>,
                   sessionUuid |-> s, token |-> TokenOf(s)]
       IN /\ offlineQueue' = offlineQueue @@ (nextId :> rec)
          /\ seqOf' = seqOf @@ (nextId :> [session |-> s, seq |-> seq])
    /\ nextId' = nextId + 1
    /\ UNCHANGED <<net, dbUp, drainVars, delPending, cooling>>
    /\ UNCHANGED notUploadVars

\* ------------------------------------------------------ the sync listener
\* sw.js:134  event.waitUntil(uploadQueuedChunks()): the call runs up to its
\* first await (openDB) and its promise extends the event's lifetime.
StartDrain(d, tag) ==
    /\ pc' = [pc EXCEPT ![d] = "open"]
    /\ items' = [items EXCEPT ![d] = <<>>]
    /\ idx' = [idx EXCEPT ![d] = 1]
    /\ attempted' = [attempted EXCEPT ![d] = <<>>]
    /\ result' = [result EXCEPT ![d] = "pending"]
    /\ tagOf' = [tagOf EXCEPT ![d] = tag]
    /\ extended' = extended \cup {d}
    /\ UNCHANGED req

IdleDrains == {d \in Drains : pc[d] = "idle"}

\* sw.js:131-136  the 'sync' listener: any other tag falls through the if.
SyncEventLogOnly(tag) ==
    UNCHANGED vars

SyncEventAnyTag(tag) ==
    /\ IdleDrains # {}
    /\ StartDrain(Min(IdleDrains), tag)
    /\ UNCHANGED <<offlineQueue, nextId, seqOf, net, dbUp, delPending, cooling>>
    /\ UNCHANGED notUploadVars

SyncEvent(tag) ==
    /\ IF tag = UploadTag
       THEN /\ IdleDrains # {}
            /\ StartDrain(Min(IdleDrains), tag)
       ELSE UNCHANGED drainVars
    /\ UNCHANGED <<offlineQueue, nextId, seqOf, net, dbUp, delPending, cooling>>
    /\ UNCHANGED notUploadVars

\* ------------------------------------------------- uploadQueuedChunks
\* The promise of an async function settles when its body ends: here always
\* by falling off the end, after the loop or after the outer catch.
Settle(d, how) ==
    /\ pc' = [pc EXCEPT ![d] = "idle"]
    /\ items' = [items EXCEPT ![d] = <<>>]
    /\ idx' = [idx EXCEPT ![d] = 1]
    /\ attempted' = [attempted EXCEPT ![d] = <<>>]
    /\ result' = [result EXCEPT ![d] = how]
    /\ tagOf' = [tagOf EXCEPT ![d] = "none"]
    /\ extended' = extended \ {d}
    /\ UNCHANGED req

\* sw.js:168-170  catch (e) { console.error(...) }: the error is swallowed.
OuterCatchRethrows(d) == Settle(d, "rejected")

OuterCatch(d) == Settle(d, "caught")

\* sw.js:141  const db = await openDB();
OpenDB(d) ==
    /\ pc[d] = "open"
    /\ IF dbUp
       THEN /\ pc' = [pc EXCEPT ![d] = "read"]
            /\ UNCHANGED <<items, idx, attempted, result, tagOf, extended, req>>
       ELSE OuterCatch(d)
    /\ UNCHANGED <<offlineQueue, nextId, seqOf, net, dbUp, delPending, cooling>>
    /\ UNCHANGED notUploadVars

\* sw.js:142-144  readonly transaction, await getAllFromStore(store)
ReadQueue(d) ==
    /\ pc[d] = "read"
    /\ IF dbUp
       THEN /\ pc' = [pc EXCEPT ![d] = "loop"]
            /\ items' = [items EXCEPT ![d] = getAllFromStore(offlineQueue)]
            /\ UNCHANGED <<idx, attempted, result, tagOf, extended, req>>
       ELSE OuterCatch(d)
    /\ UNCHANGED <<offlineQueue, nextId, seqOf, net, dbUp, delPending, cooling>>
    /\ UNCHANGED notUploadVars

\* sw.js:147-156  next item of the loop: build the form and call fetch. The
\* request reaches the endpoint unless the device is offline.
StartFetchBackoff(d) ==
    /\ pc[d] = "loop"
    /\ idx[d] <= Len(items[d])
    /\ IF CurItem(d).id = cooling
       THEN /\ idx' = [idx EXCEPT ![d] = @ + 1]
            /\ UNCHANGED <<attempted, req, pc>>
       ELSE /\ attempted' = [attempted EXCEPT ![d] = Append(@, CurItem(d).id)]
            /\ req' = [req EXCEPT ![d] = BuildRequest(CurItem(d))]
            /\ pc' = [pc EXCEPT ![d] = IF net = "offline" THEN "fetchLost" ELSE "fetch"]
            /\ UNCHANGED idx
    /\ UNCHANGED <<offlineQueue, nextId, seqOf, net, dbUp, items, result, tagOf, extended,
                   delPending, cooling>>
    /\ UNCHANGED notUploadVars

StartFetch(d) ==
    /\ pc[d] = "loop"
    /\ idx[d] <= Len(items[d])
    /\ attempted' = [attempted EXCEPT ![d] = Append(@, CurItem(d).id)]
    /\ req' = [req EXCEPT ![d] = BuildRequest(CurItem(d))]
    /\ pc' = [pc EXCEPT ![d] = IF net = "offline" THEN "fetchLost" ELSE "fetch"]
    /\ UNCHANGED <<offlineQueue, nextId, seqOf, net, dbUp, items, idx, result, tagOf, extended,
                   delPending, cooling>>
    /\ UNCHANGED notUploadVars

\* How the awaited fetch settles: it rejects when the request or its response
\* is lost, else resolves with the response the endpoint (or whatever answers
\* in its place) gives.
Outcome(d) ==
    IF pc[d] = "fetchLost" \/ net = "offline" THEN "threw"
    ELSE IF net = "error" THEN "notok"
    ELSE IF net = "bare200" THEN "ok"
    ELSE "acked"

\* sw.js:158  if (resp.ok): the status alone is read, never the body.
RespOkAnyResponse(outcome) == outcome # "threw"

RespOk(outcome) == outcome \in {"ok", "acked"}

\* sw.js:158 (resp.ok false) and sw.js:164-166 (catch: console.warn only):
\* the stored queue after a failed attempt of entry id.
QueueAfterFailureExpire(q, id) == [k \in DOMAIN q \ {id} |-> q[k]]

QueueAfterFailureCount(q, id) ==
    IF id \in DOMAIN q THEN [q EXCEPT ![id] = [attempts |-> 1] @@ @] ELSE q

QueueAfterFailure(q, id) == q

\* A settle that reports a failed upload to the recording page, which
\* interrupts the session.
SettleFetchSignalsSession(d) ==
    /\ pc[d] \in {"fetch", "fetchLost"}
    /\ req' = [req EXCEPT ![d] = NoRequest]
    /\ IF RespOk(Outcome(d))
       THEN /\ pc' = [pc EXCEPT ![d] = "opendel"]
            /\ UNCHANGED <<idx, offlineQueue, cooling>>
            /\ UNCHANGED <<lifecycle, reason, cause>>
       ELSE /\ pc' = [pc EXCEPT ![d] = "loop"]
            /\ idx' = [idx EXCEPT ![d] = @ + 1]
            /\ cooling' = CurItem(d).id
            /\ offlineQueue' = QueueAfterFailure(offlineQueue, CurItem(d).id)
            /\ IF lifecycle = "Recording"
               THEN /\ lifecycle' = "Interrupted"
                    /\ reason' = "upload-failed"
                    /\ cause' = "upload"
               ELSE UNCHANGED <<lifecycle, reason, cause>>
    /\ UNCHANGED <<nextId, seqOf, net, dbUp, items, attempted, result, tagOf, extended,
                   delPending>>
    /\ UNCHANGED <<alive, userPaused, ext, diskOk, storeVars>>
    /\ UNCHANGED <<pageVars, langVars, cacheVars>>

\* A settle without the inner try/catch: a failed attempt ends the loop in
\* the outer catch.
SettleFetchFailureEndsDrain(d) ==
    /\ pc[d] \in {"fetch", "fetchLost"}
    /\ IF RespOk(Outcome(d))
       THEN /\ pc' = [pc EXCEPT ![d] = "opendel"]
            /\ req' = [req EXCEPT ![d] = NoRequest]
            /\ UNCHANGED <<idx, items, attempted, result, tagOf, extended>>
       ELSE Settle(d, "caught")
    /\ UNCHANGED <<offlineQueue, nextId, seqOf, net, dbUp, delPending, cooling>>
    /\ UNCHANGED notUploadVars

\* sw.js:152-158  await fetch(...) settles; if (resp.ok) goes on to the delete.
SettleFetch(d) ==
    /\ pc[d] \in {"fetch", "fetchLost"}
    /\ req' = [req EXCEPT ![d] = NoRequest]
    /\ IF RespOk(Outcome(d))
       THEN /\ pc' = [pc EXCEPT ![d] = "opendel"]
            /\ UNCHANGED <<idx, offlineQueue, cooling>>
       ELSE /\ pc' = [pc EXCEPT ![d] = "loop"]
            /\ idx' = [idx EXCEPT ![d] = @ + 1]
            /\ cooling' = CurItem(d).id
            /\ offlineQueue' = QueueAfterFailure(offlineQueue, CurItem(d).id)
    /\ UNCHANGED <<nextId, seqOf, net, dbUp, items, attempted, result, tagOf, extended,
                   delPending>>
    /\ UNCHANGED notUploadVars

\* sw.js:160-162  (await openDB()).transaction(...).delete(item.id): the
\* delete request is issued and not awaited; a rejected openDB lands in the
\* inner catch. Either way the loop goes on to the next item.
IssueDelete(d) ==
    /\ pc[d] = "opendel"
    /\ delPending' = IF dbUp THEN delPending \cup {CurItem(d).id} ELSE delPending
    /\ pc' = [pc EXCEPT ![d] = "loop"]
    /\ idx' = [idx EXCEPT ![d] = @ + 1]
    /\ UNCHANGED <<offlineQueue, nextId, seqOf, net, dbUp, items, attempted, result, tagOf,
                   extended, req, cooling>>
    /\ UNCHANGED notUploadVars

\* sw.js:147, 171  the loop is exhausted and the function returns.
Finish(d) ==
    /\ pc[d] = "loop"
    /\ idx[d] > Len(items[d])
    /\ Settle(d, "resolved")
    /\ UNCHANGED <<offlineQueue, nextId, seqOf, net, dbUp, delPending, cooling>>
    /\ UNCHANGED notUploadVars

\* ------------------------------------------------------------ IndexedDB
\* The readwrite transaction of sw.js:160-161 commits on its own.
CommitDelete(id) ==
    /\ id \in delPending
    /\ dbUp
    /\ offlineQueue' = [k \in DOMAIN offlineQueue \ {id} |-> offlineQueue[k]]
    /\ delPending' = delPending \ {id}
    /\ UNCHANGED <<nextId, seqOf, net, dbUp, drainVars, cooling>>
    /\ UNCHANGED notUploadVars

\* ... or aborts: the delete request fails as an event nobody listens to.
AbortDelete(id) ==
    /\ id \in delPending
    /\ ~dbUp
    /\ delPending' = delPending \ {id}
    /\ UNCHANGED <<offlineQueue, nextId, seqOf, net, dbUp, drainVars, cooling>>
    /\ UNCHANGED notUploadVars

\* The browser stops a worker that no event keeps alive; transactions not
\* yet committed are aborted with it.
Terminate ==
    /\ extended = {}
    /\ delPending # {}
    /\ delPending' = {}
    /\ UNCHANGED <<offlineQueue, nextId, seqOf, net, dbUp, drainVars, cooling>>
    /\ UNCHANGED notUploadVars

\* ----------------------------------------------------------- environment
SetNet(n) ==
    /\ n # net
    /\ net' = n
    /\ UNCHANGED <<offlineQueue, nextId, seqOf, dbUp, drainVars, delPending, cooling>>
    /\ UNCHANGED notUploadVars

SetDb(b) ==
    /\ b # dbUp
    /\ dbUp' = b
    /\ UNCHANGED <<offlineQueue, nextId, seqOf, net, drainVars, delPending, cooling>>
    /\ UNCHANGED notUploadVars

\* One unit of wall-clock time passes.
Tick ==
    /\ cooling # 0
    /\ cooling' = 0
    /\ UNCHANGED <<offlineQueue, nextId, seqOf, net, dbUp, drainVars, delPending>>
    /\ UNCHANGED notUploadVars

uploadQueuedChunks(d) ==
    \/ OpenDB(d)
    \/ ReadQueue(d)
    \/ StartFetch(d)
    \/ SettleFetch(d)
    \/ IssueDelete(d)
    \/ Finish(d)

Next ==
    \/ \E s \in Sessions : Enqueue(s)
    \/ \E tag \in Tags : SyncEvent(tag)
    \/ \E d \in Drains : uploadQueuedChunks(d)
    \/ \E id \in Ids : CommitDelete(id)
    \/ \E id \in Ids : AbortDelete(id)
    \/ Terminate
    \/ \E n \in NetStates : SetNet(n)
    \/ \E b \in BOOLEAN : SetDb(b)
    \/ Tick

Spec == Init /\ [][Next]_vars

\* Scheduling: the event loop runs every continuation of a drain that is
\* ready; the browser keeps delivering 'upload-audio-chunks' sync events; a
\* delete transaction that is ready to commit over and over does commit.
LiveSpec ==
    /\ Init
    /\ [][Next]_vars
    /\ \A d \in Drains : WF_vars(uploadQueuedChunks(d))
    /\ WF_vars(SyncEvent(UploadTag))
    /\ \A id \in Ids : SF_vars(CommitDelete(id))

\* ===================================================================
\* The capture pipeline: Chunk Assembler, Durable Local Store, Session
\* State Machine, Heartbeat Monitor and Reconciliation Service.
\* ===================================================================
SealedCount == Cardinality(meta)

HighestConfirmed == IF confirmed = {} THEN -1 ELSE Max(confirmed)

\* put(chunk) -> IOError: nothing is persisted and the buffer keeps the audio.
KeepBuffer == UNCHANGED storeVars

\* put(chunk) -> ok: payload and metadata are persisted together under the
\* next sequence number and a Queue Entry is created for the chunk.
SealChunk ==
    /\ meta' = meta \cup {nextSeq}
    /\ local' = local \cup {nextSeq}
    /\ pendingQ' = pendingQ \cup {nextSeq}
    /\ nextSeq' = nextSeq + 1
    /\ sealedDur' = sealedDur + buffered
    /\ buffered' = 0
    /\ UNCHANGED <<elapsed, confirmed, gaps>>

\* An explicit flush (pause, stop, backgrounding) seals what is buffered.
Flush == IF diskOk /\ buffered > 0 THEN SealChunk ELSE KeepBuffer

\* The microphone keeps delivering audio while the boundary's write is due.
CaptureTickUnbounded ==
    /\ alive
    /\ lifecycle = "Recording"
    /\ ext # "input-lost"
    /\ SealedCount < MaxChunks
    /\ buffered < 2 * ChunkDuration
    /\ buffered' = buffered + TickSeconds
    /\ elapsed' = elapsed + TickSeconds
    /\ UNCHANGED <<alive, machineVars, diskOk, nextSeq, meta, local, sealedDur, pendingQ,
                   confirmed, gaps>>
    /\ UNCHANGED notCaptureVars

\* TickSeconds more of audio reach the buffer; at a duration boundary the
\* Assembler seals before it takes more.
CaptureTick ==
    /\ alive
    /\ lifecycle = "Recording"
    /\ ext # "input-lost"
    /\ SealedCount < MaxChunks
    /\ buffered + TickSeconds <= ChunkDuration
    /\ buffered' = buffered + TickSeconds
    /\ elapsed' = elapsed + TickSeconds
    /\ UNCHANGED <<alive, machineVars, diskOk, nextSeq, meta, local, sealedDur, pendingQ,
                   confirmed, gaps>>
    /\ UNCHANGED notCaptureVars

\* The duration boundary: the chunk is sealed with a blocking write; a
\* failed write is the fatal signal that interrupts the session.
SealBoundary ==
    /\ alive
    /\ lifecycle = "Recording"
    /\ buffered > 0
    /\ buffered + TickSeconds > ChunkDuration
    /\ IF diskOk
       THEN /\ SealChunk
            /\ UNCHANGED machineVars
       ELSE /\ KeepBuffer
            /\ lifecycle' = "Interrupted"
            /\ reason' = "write-failed"
            /\ cause' = "fatal-write"
            /\ UNCHANGED <<userPaused, ext>>
    /\ UNCHANGED <<alive, diskOk>>
    /\ UNCHANGED notCaptureVars

\* ---------------------------------------------------------- user actions
Start ==
    /\ alive
    /\ lifecycle = "Ready"
    /\ lifecycle' = "Recording"
    /\ reason' = "none"
    /\ cause' = "user"
    /\ UNCHANGED <<alive, userPaused, ext, diskOk, storeVars>>
    /\ UNCHANGED notCaptureVars

Pause ==
    /\ alive
    /\ lifecycle \in {"Recording", "Interrupted"}
    /\ ~userPaused
    /\ userPaused' = TRUE
    /\ IF lifecycle = "Recording"
       THEN /\ lifecycle' = "Interrupted"
            /\ reason' = "paused"
            /\ cause' = "user"
            /\ Flush
       ELSE /\ UNCHANGED <<lifecycle, reason, cause>>
            /\ KeepBuffer
    /\ UNCHANGED <<alive, ext, diskOk>>
    /\ UNCHANGED notCaptureVars

Resume ==
    /\ alive
    /\ lifecycle = "Interrupted"
    /\ userPaused
    /\ ext = "none"
    /\ diskOk
    /\ userPaused' = FALSE
    /\ lifecycle' = "Recording"
    /\ reason' = "none"
    /\ cause' = "user"
    /\ UNCHANGED <<alive, ext, diskOk, storeVars>>
    /\ UNCHANGED notCaptureVars

Stop ==
    /\ alive
    /\ lifecycle \in {"Recording", "Interrupted"}
    /\ lifecycle' = "Ended"
    /\ reason' = "none"
    /\ userPaused' = FALSE
    /\ cause' = "user"
    /\ Flush
    /\ UNCHANGED <<alive, ext, diskOk>>
    /\ UNCHANGED notCaptureVars

\* ----------------------------------------------------- Heartbeat Monitor
ExtReasons == {"input-lost", "backgrounded"}

\* A phone call, a lost microphone, the app leaving the foreground.
ExtBegin(r) ==
    /\ ext = "none"
    /\ ext' = r
    /\ UNCHANGED <<alive, lifecycle, reason, userPaused, cause, diskOk, storeVars>>
    /\ UNCHANGED notCaptureVars

\* The monitor's tick while Recording: an external condition in force
\* interrupts the session with its reason code; backgrounding also flushes.
Heartbeat ==
    /\ alive
    /\ lifecycle = "Recording"
    /\ ext \in ExtReasons
    /\ lifecycle' = "Interrupted"
    /\ reason' = ext
    /\ cause' = "heartbeat"
    /\ IF ext = "backgrounded" THEN Flush ELSE KeepBuffer
    /\ UNCHANGED <<alive, userPaused, ext, diskOk>>
    /\ UNCHANGED notCaptureVars

\* Recovery that waits for the user although the user never paused.
ExtEndStaysInterrupted ==
    /\ ext \in ExtReasons
    /\ ext' = "none"
    /\ UNCHANGED <<alive, lifecycle, reason, userPaused, cause, diskOk, storeVars>>
    /\ UNCHANGED notCaptureVars

\* Recovery: the external condition ends; the monitor asks for Recording
\* again unless the user had explicitly paused.
ExtEnd ==
    /\ ext \in ExtReasons
    /\ ext' = "none"
    /\ IF alive /\ lifecycle = "Interrupted" /\ reason = ext /\ ~userPaused
       THEN /\ lifecycle' = "Recording"
            /\ reason' = "none"
            /\ cause' = "heartbeat"
       ELSE UNCHANGED <<lifecycle, reason, cause>>
    /\ UNCHANGED <<alive, userPaused, diskOk, storeVars>>
    /\ UNCHANGED notCaptureVars

DiskFail ==
    /\ diskOk
    /\ diskOk' = FALSE
    /\ UNCHANGED <<alive, machineVars, storeVars>>
    /\ UNCHANGED notCaptureVars

\* Recovery: disk writes succeed again.
DiskRecover ==
    /\ ~diskOk
    /\ diskOk' = TRUE
    /\ IF alive /\ lifecycle = "Interrupted" /\ reason = "write-failed" /\ ~userPaused
       THEN /\ lifecycle' = "Recording"
            /\ reason' = "none"
            /\ cause' = "heartbeat"
       ELSE UNCHANGED <<lifecycle, reason, cause>>
    /\ UNCHANGED <<alive, userPaused, ext, storeVars>>
    /\ UNCHANGED notCaptureVars

\* ------------------------------------------------- crash, restart, upload
\* The capture process is killed: everything held in memory is gone, what
\* the Durable Local Store persisted stays.
Crash ==
    /\ alive
    /\ alive' = FALSE
    /\ lifecycle' = IF lifecycle = "Ended" THEN "Ended" ELSE "Ready"
    /\ reason' = "none"
    /\ userPaused' = FALSE
    /\ cause' = "none"
    /\ nextSeq' = 0
    /\ buffered' = 0
    /\ pendingQ' = {}
    /\ UNCHANGED <<ext, diskOk, meta, local, elapsed, sealedDur, confirmed, gaps>>
    /\ UNCHANGED notCaptureVars

\* Reconciliation re-enqueues every local chunk, confirmed or not.
RequeueAllLocal(localSet, high) == localSet

\* The local chunks above the server's highest-confirmed sequence number.
RequeueSet(localSet, high) == {q \in localSet : q > high}

\* Sequence gaps: chunks the metadata references that are missing locally.
GapSet(metaSet, localSet) == metaSet \ localSet

\* The Assembler starts counting from 0 again after a restart.
NextSeqAfterRestartZero(metaSet) == 0

\* listSealed tells the Assembler where the sequence continues.
NextSeqAfterRestart(metaSet) == Cardinality(metaSet)

\* Process start: the Reconciliation Service runs once; recording time is
\* counted again from what was saved.
Restart ==
    /\ ~alive
    /\ alive' = TRUE
    /\ nextSeq' = NextSeqAfterRestart(meta)
    /\ pendingQ' = RequeueSet(local, HighestConfirmed)
    /\ gaps' = GapSet(meta, local)
    /\ elapsed' = sealedDur
    /\ UNCHANGED <<machineVars, diskOk, meta, local, buffered, sealedDur, confirmed>>
    /\ UNCHANGED notCaptureVars

\* The remote endpoint confirms a queued chunk (in any order).
Confirm(q) ==
    /\ q \in pendingQ
    /\ confirmed' = confirmed \cup {q}
    /\ pendingQ' = pendingQ \ {q}
    /\ UNCHANGED <<alive, machineVars, diskOk, nextSeq, meta, local, buffered, elapsed,
                   sealedDur, gaps>>
    /\ UNCHANGED notCaptureVars

\* A sealed chunk's payload disappears from local storage.
LosePayload(q) ==
    /\ q \in local
    /\ local' = local \ {q}
    /\ pendingQ' = pendingQ \ {q}
    /\ UNCHANGED <<alive, machineVars, diskOk, nextSeq, meta, buffered, elapsed, sealedDur,
                   confirmed, gaps>>
    /\ UNCHANGED notCaptureVars

CaptureNext ==
    \/ Start
    \/ CaptureTick
    \/ SealBoundary
    \/ Pause
    \/ Resume
    \/ Stop
    \/ \E r \in ExtReasons : ExtBegin(r)
    \/ Heartbeat
    \/ ExtEnd
    \/ DiskFail
    \/ DiskRecover
    \/ Crash
    \/ Restart
    \/ \E q \in SeqNos : Confirm(q)
    \/ \E q \in SeqNos : LosePayload(q)

CaptureSpec == Init /\ [][CaptureNext]_vars

\* The session of a running page next to the service worker's upload of one
\* session's chunks, sync events arriving one at a time.
IndepNext ==
    \/ Start
    \/ CaptureTick
    \/ SealBoundary
    \/ Pause
    \/ Resume
    \/ Stop
    \/ ExtBegin("backgrounded")
    \/ Heartbeat
    \/ ExtEnd
    \/ DiskFail
    \/ Enqueue("sA")
    \/ IdleDrains = Drains /\ SyncEvent(UploadTag)
    \/ \E d \in Drains : uploadQueuedChunks(d)
    \/ \E id \in Ids : CommitDelete(id)
    \/ \E n \in {"offline", "up"} : SetNet(n)

IndepSpec == Init /\ [][IndepNext]_vars

\* ===================================================================
\* shared.js: the auth guard and instabioLogout
\* ===================================================================
\* String.prototype.startsWith('/' + first + '/') on a pathname.
StartsWithDir(p, first) == Len(p) >= 2 /\ p[1] = first

\* const publicPaths = [...] of the version loaded.
PublicPaths(v) ==
    IF v = "old" THEN {Root, Onboard, <<"index.html">>}
    ELSE {Root, Onboard, <<"index.html">>, <<"share">>}

\* A guard that leaves a visitor without a token where they are.
GuardNeverRedirects(v, p, st) == FALSE

\* The condition of the guard's if: no token and not a public path (and, in
\* the newer version, not under /share/).
GuardRedirects(v, p, st) ==
    /\ TokenKey \notin st
    /\ p \notin PublicPaths(v)
    /\ v = "new" => ~StartsWithDir(p, "share")

\* The guard runs as the page's scripts load; its redirect loads /onboard.
AuthGuard ==
    /\ pagePc = "loading"
    /\ IF GuardRedirects(version, path, storage)
       THEN /\ path' = Onboard
            /\ lastNav' = "guard"
            /\ UNCHANGED pagePc
       ELSE /\ pagePc' = "ready"
            /\ UNCHANGED <<path, lastNav>>
    /\ UNCHANGED <<version, storage, lastLogout>>
    /\ UNCHANGED notPageVars

\* instabioLogout up to its await: the token is read, the POST is sent.
LogoutStart ==
    /\ pagePc = "ready"
    /\ pagePc' = "logout"
    /\ UNCHANGED <<version, path, storage, lastNav, lastLogout>>
    /\ UNCHANGED notPageVars

\* A logout without the try/catch: a rejected fetch ends the function.
LogoutSettleNoCatch(outcome) ==
    /\ pagePc = "logout"
    /\ lastLogout' = outcome
    /\ IF outcome = "rejected"
       THEN /\ pagePc' = "ready"
            /\ UNCHANGED <<storage, path, lastNav>>
       ELSE /\ storage' = storage \ SessionKeys
            /\ path' = Root
            /\ lastNav' = "logout"
            /\ pagePc' = "loading"
    /\ UNCHANGED version
    /\ UNCHANGED notPageVars

\* The fetch settles (the catch swallows a rejection, the status is never
\* read): the three keys are removed and the location is set to '/'.
LogoutSettle(outcome) ==
    /\ pagePc = "logout"
    /\ lastLogout' = outcome
    /\ storage' = storage \ SessionKeys
    /\ path' = Root
    /\ lastNav' = "logout"
    /\ pagePc' = "loading"
    /\ UNCHANGED version
    /\ UNCHANGED notPageVars

\* The user opens another location.
Navigate(p) ==
    /\ pagePc = "ready"
    /\ path' = p
    /\ lastNav' = "user"
    /\ pagePc' = "loading"
    /\ UNCHANGED <<version, storage, lastLogout>>
    /\ UNCHANGED notPageVars

PageNext ==
    \/ AuthGuard
    \/ LogoutStart
    \/ \E outcome \in LogoutOutcomes : LogoutSettle(outcome)
    \/ \E p \in Paths : Navigate(p)

PageStart ==
    /\ UploadInit
    /\ CaptureInit
    /\ PageInit
    /\ LangQuiet
    /\ CacheQuiet

PageSpec == PageStart /\ [][PageNext]_vars

\* ===================================================================
\* i18n.js
\* ===================================================================
\* setLanguage up to its await: the argument is normalised, becomes the
\* current language and is stored; the translation file is requested.
setLanguage(lang) ==
    /\ currentLang' = NormalizeLang(lang)
    /\ savedLang' = NormalizeLang(lang)
    /\ loading' = loading \cup {NormalizeLang(lang)}
    /\ UNCHANGED <<navLang, translations, docLang, docDir, pageText, lastLoad>>

\* The auto-init: setLanguage(preferred), at DOMContentLoaded or at once.
AutoInit ==
    /\ ~domReady
    /\ domReady' = TRUE
    /\ setLanguage(getPreferredLang(savedLang, navLang))
    /\ UNCHANGED notLangVars

\* A language selector or any script calls window.instabioI18n.setLanguage.
CallSetLanguage(lang) ==
    /\ domReady
    /\ setLanguage(lang)
    /\ UNCHANGED domReady
    /\ UNCHANGED notLangVars

\* loadTranslations: the parsed file, or {} when the fetch rejects, the
\* status is not OK or the body does not parse.
LoadResult(lang, ok) == IF ok THEN lang ELSE NoValue

\* An applyTranslations that writes table[key] without looking at it.
ApplyTextOverwrites(text, table) == table

\* applyTranslations: an element's text is replaced only when the table has
\* its key.
ApplyText(text, table) == IF table = NoValue THEN text ELSE table

\* RTL_LANGS.includes(_currentLang) ? 'rtl' : 'ltr'
DirOf(lang) == IF lang \in RTL_LANGS THEN "rtl" ELSE "ltr"

\* loadTranslations settles and setLanguage resumes: _translations is the
\* file loaded ({} if the load failed) and applyTranslations rewrites the
\* translatable text and sets the document's lang and dir from the current
\* language.
LoadSettle(lang, ok) ==
    /\ lang \in loading
    /\ loading' = loading \ {lang}
    /\ lastLoad' = IF ok THEN "ok" ELSE "failed"
    /\ translations' = LoadResult(lang, ok)
    /\ pageText' = ApplyText(pageText, LoadResult(lang, ok))
    /\ docLang' = currentLang
    /\ docDir' = DirOf(currentLang)
    /\ UNCHANGED <<savedLang, navLang, currentLang, domReady>>
    /\ UNCHANGED notLangVars

LangNext ==
    \/ AutoInit
    \/ \E lang \in LangInputs : CallSetLanguage(lang)
    \/ \E lang \in SUPPORTED_LANGS, ok \in BOOLEAN : LoadSettle(lang, ok)

LangStart ==
    /\ UploadInit
    /\ CaptureInit
    /\ PageQuiet
    /\ LangInit
    /\ CacheQuiet

LangSpec == LangStart /\ [][LangNext]_vars

\* ===================================================================
\* sw.js: the install, activate and fetch handlers
\* ===================================================================
\* caches.match(request): some cache holds an entry for the path.
Match(cs, p) == \E n \in DOMAIN cs : p \in cs[n]

\* caches.open(name) then adding entries: the cache is created if missing.
WithEntries(cs, name, ps) ==
    [n \in DOMAIN cs \cup {name} |->
        IF n = name THEN (IF n \in DOMAIN cs THEN cs[n] ELSE {}) \cup ps ELSE cs[n]]

\* A handler with no API bypass.
IsApiPathNever(p) == FALSE

\* url.pathname.startsWith('/api/')
IsApiPath(p) == StartsWithDir(p, "api")

\* A fallback that looks for the request only.
NavFallbackEntryRequestOnly(cs, p) == IF Match(cs, p) THEN p ELSE NoEntry

\* caches.match(request).then(response => response || caches.match('/'))
NavFallbackEntry(cs, p) ==
    IF Match(cs, p) THEN p ELSE IF Match(cs, Root) THEN Root ELSE NoEntry

Respond(p, m, how, entry, outcome) ==
    resp' = [path |-> p, mode |-> m, by |-> how, entry |-> entry, net |-> outcome]

\* install: cache.addAll(STATIC_ASSETS) succeeds, then skipWaiting().
InstallOk ==
    /\ swPhase = "installing"
    /\ caches' = WithEntries(caches, CACHE_NAME, STATIC_ASSETS)
    /\ swPhase' = "installed"
    /\ UNCHANGED <<cleanup, fe, resp, putPending>>
    /\ UNCHANGED notCacheVars

\* install: addAll rejects (an asset could not be fetched); nothing is
\* added and the worker is discarded.
InstallFail ==
    /\ swPhase = "installing"
    /\ caches' = WithEntries(caches, CACHE_NAME, {})
    /\ swPhase' = "redundant"
    /\ UNCHANGED <<cleanup, fe, resp, putPending>>
    /\ UNCHANGED notCacheVars

\* An activation that deletes every cache it finds.
CachesToDeleteAll(names) == names

\* cacheNames.filter((name) => name !== CACHE_NAME)
CachesToDelete(names) == {n \in names : n # CACHE_NAME}

\* activate: caches.keys() resolves and caches.delete is called for every
\* name but CACHE_NAME.
ActivateStart ==
    /\ swPhase = "installed"
    /\ swPhase' = "activating"
    /\ cleanup' = [n \in CachesToDelete(DOMAIN caches) |-> "pending"]
    /\ UNCHANGED <<caches, fe, resp, putPending>>
    /\ UNCHANGED notCacheVars

\* One caches.delete(name) finishes.
DeleteCache(name) ==
    /\ name \in DOMAIN cleanup
    /\ cleanup[name] = "pending"
    /\ cleanup' = [cleanup EXCEPT ![name] = "done"]
    /\ caches' = [n \in DOMAIN caches \ {name} |-> caches[n]]
    /\ UNCHANGED <<swPhase, fe, resp, putPending>>
    /\ UNCHANGED notCacheVars

\* Promise.all resolved (every delete finished): clients.claim().
ActivateClaim ==
    /\ swPhase = "activating"
    /\ \A n \in DOMAIN cleanup : cleanup[n] = "done"
    /\ swPhase' = "active"
    /\ UNCHANGED <<cleanup, caches, fe, resp, putPending>>
    /\ UNCHANGED notCacheVars

\* The fetch listener, up to its first asynchronous call. An API request is
\* left to the browser (no respondWith): the page gets what the network gives.
FetchEvent(p, m) ==
    /\ swPhase = "active"
    /\ fe = NoFetch
    /\ IF IsApiPath(p)
       THEN /\ \E outcome \in FetchOutcomes : Respond(p, m, "browser", NoEntry, outcome)
            /\ UNCHANGED fe
       ELSE /\ fe' = [path |-> p, mode |-> m,
                      stage |-> IF m = "navigate" THEN "fetch" ELSE "match"]
            /\ UNCHANGED resp
    /\ UNCHANGED <<cleanup, swPhase, caches, putPending>>
    /\ UNCHANGED notCacheVars

\* navigate: fetch(request) settles; a resolved response is the answer.
NavSettle(outcome) ==
    /\ fe.stage = "fetch"
    /\ fe.mode = "navigate"
    /\ IF outcome = "rejects"
       THEN /\ fe' = [fe EXCEPT !.stage = "fallback"]
            /\ UNCHANGED resp
       ELSE /\ Respond(fe.path, fe.mode, "network", NoEntry, outcome)
            /\ fe' = NoFetch
    /\ UNCHANGED <<cleanup, swPhase, caches, putPending>>
    /\ UNCHANGED notCacheVars

\* navigate, in the catch: the cached entry for the request, else for '/'.
NavFallback ==
    /\ fe.stage = "fallback"
    /\ Respond(fe.path, fe.mode,
               IF NavFallbackEntry(caches, fe.path) = NoEntry THEN "failed" ELSE "cache",
               NavFallbackEntry(caches, fe.path), "rejects")
    /\ fe' = NoFetch
    /\ UNCHANGED <<cleanup, swPhase, caches, putPending>>
    /\ UNCHANGED notCacheVars

\* A handler that goes to the network whatever the cache holds.
AssetMatchSkipsCache ==
    /\ fe.stage = "match"
    /\ fe' = [fe EXCEPT !.stage = "fetch"]
    /\ UNCHANGED <<cleanup, swPhase, caches, resp, putPending>>
    /\ UNCHANGED notCacheVars

\* other requests: caches.match(request) settles; a hit is the answer.
AssetMatch ==
    /\ fe.stage = "match"
    /\ IF Match(caches, fe.path)
       THEN /\ Respond(fe.path, fe.mode, "cache", fe.path, "none")
            /\ fe' = NoFetch
       ELSE /\ fe' = [fe EXCEPT !.stage = "fetch"]
            /\ UNCHANGED resp
    /\ UNCHANGED <<cleanup, swPhase, caches, putPending>>
    /\ UNCHANGED notCacheVars

\* A handler that caches whatever response the network gave.
AssetSettleCachesAll(outcome) ==
    /\ fe.stage = "fetch"
    /\ fe.mode # "navigate"
    /\ Respond(fe.path, fe.mode, IF outcome = "rejects" THEN "failed" ELSE "network",
               NoEntry, outcome)
    /\ putPending' = IF outcome # "rejects" THEN putPending \cup {fe.path} ELSE putPending
    /\ fe' = NoFetch
    /\ UNCHANGED <<cleanup, swPhase, caches>>
    /\ UNCHANGED notCacheVars

\* other requests, after a miss: fetch(request) settles; a 200 basic
\* response is returned and its copy handed to cache.put, which nobody
\* awaits; any other response is returned as it is; a rejection is not caught.
AssetSettle(outcome) ==
    /\ fe.stage = "fetch"
    /\ fe.mode # "navigate"
    /\ Respond(fe.path, fe.mode, IF outcome = "rejects" THEN "failed" ELSE "network",
               NoEntry, outcome)
    /\ putPending' = IF outcome = "ok-basic" THEN putPending \cup {fe.path} ELSE putPending
    /\ fe' = NoFetch
    /\ UNCHANGED <<cleanup, swPhase, caches>>
    /\ UNCHANGED notCacheVars

\* caches.open(CACHE_NAME).then(cache => cache.put(...)) completes.
PutCommit(p) ==
    /\ p \in putPending
    /\ putPending' = putPending \ {p}
    /\ caches' = WithEntries(caches, CACHE_NAME, {p})
    /\ UNCHANGED <<cleanup, swPhase, fe, resp>>
    /\ UNCHANGED notCacheVars

\* The put fails, or the worker is stopped before it finishes.
PutLost(p) ==
    /\ p \in putPending
    /\ putPending' = putPending \ {p}
    /\ UNCHANGED <<cleanup, swPhase, caches, fe, resp>>
    /\ UNCHANGED notCacheVars

CacheNext ==
    \/ InstallOk
    \/ InstallFail
    \/ ActivateStart
    \/ \E name \in CacheNames : DeleteCache(name)
    \/ ActivateClaim
    \/ \E p \in ReqPaths, m \in Modes : FetchEvent(p, m)
    \/ \E outcome \in FetchOutcomes : NavSettle(outcome)
    \/ NavFallback
    \/ AssetMatch
    \/ \E outcome \in FetchOutcomes : AssetSettle(outcome)
    \/ \E p \in ReqPaths : PutCommit(p)
    \/ \E p \in ReqPaths : PutLost(p)

CacheStart ==
    /\ UploadInit
    /\ CaptureInit
    /\ PageQuiet
    /\ LangQuiet
    /\ CacheInit

CacheSpec == CacheStart /\ [][CacheNext]_vars

\* ===================================================================
\* Properties
\* ===================================================================
InFlight(d) == pc[d] \in {"fetch", "fetchLost"}
Running(d) == pc[d] # "idle"
Removed == (1..(nextId - 1)) \ DOMAIN offlineQueue
IdsOf(seq) == [i \in 1..Len(seq) |-> seq[i].id]

C2_NoDoubleSend ==
    \A d1, d2 \in Drains :
        d1 # d2 => Range(attempted[d1]) \cap Range(attempted[d2]) = {}

C4_FailureKeepsEntry ==
    [][/\ \A d \in Drains :
             (InFlight(d) /\ pc'[d] = "loop") => offlineQueue' = offlineQueue
       /\ \A d \in Drains :
             (Running(d) /\ pc'[d] = "idle") => offlineQueue' = offlineQueue
       /\ \A id \in DOMAIN offlineQueue :
             (id \notin DOMAIN offlineQueue') => (id \in delPending /\ dbUp)]_vars

C4_Witness ==
    /\ cooling \in DOMAIN offlineQueue
    /\ \A d \in Drains : ~Running(d)
    /\ cooling \notin delPending

\* C5: within one drain, uploads of entries of the same session are started
\* in ascending sequence-number order.
C5_SequenceOrder ==
    \A d \in Drains :
        \A i, j \in 1..Len(attempted[d]) :
            (i < j /\ seqOf[attempted[d][i]].session = seqOf[attempted[d][j]].session)
                => seqOf[attempted[d][i]].seq < seqOf[attempted[d][j]].seq

C5_Witness ==
    \E d \in Drains :
        /\ Len(attempted[d]) >= 2
        /\ seqOf[attempted[d][1]].session = seqOf[attempted[d][2]].session

\* C6 (as stated): every upload request carries the idempotency key of its
\* chunk: session id, sequence number and checksum.
HasIdempotencyKey(r) == {"sequence", "checksum"} \subseteq DOMAIN r

C7_NeverRejects ==
    \A d \in Drains : result[d] \in {"none", "pending", "resolved", "caught"}

C7_Witness ==
    \E d \in Drains : result[d] = "caught" /\ ~dbUp

\* C8 (as stated): an attempt for an entry is never started while the entry
\* is still within the first unit of time after its last failed attempt
\* (stated for drains that run one at a time: no other invocation has ever
\* been started beside this one).
Alone(d) == \A e \in Drains \ {d} : result[e] = "none"

C9_SyncStartsDrain ==
    \A d \in Drains :
        /\ Running(d) => (tagOf[d] = UploadTag /\ d \in extended /\ result[d] = "pending")
        /\ d \in extended => Running(d)

C9_Witness ==
    \E d \in Drains : pc[d] = "opendel" /\ d \in extended /\ tagOf[d] = UploadTag

\* C10: a stored entry never changes: every step leaves each entry that stays
\* in the queue exactly as it was, and every step but the page's enqueue can
\* only remove entries.
C10_EntriesImmutable ==
    [][/\ \A id \in DOMAIN offlineQueue \cap DOMAIN offlineQueue' : offlineQueue'[id] = offlineQueue[id]
       /\ nextId' = nextId => DOMAIN offlineQueue' \subseteq DOMAIN offlineQueue]_vars

C10_Witness ==
    /\ Removed # {}
    /\ cooling \in DOMAIN offlineQueue
    /\ \A d \in Drains : ~Running(d)

\* C11: the sequence numbers of a session's sealed chunks (confirmed and
\* pending alike) are always exactly 0, 1, ..., n-1 for the n chunks sealed,
\* and a running Assembler gives the next chunk the number n, whatever seals,
\* crashes and restarts came before.
C11_ContiguousFromZero ==
    /\ \A q \in meta : q >= 0 /\ \A r \in 0..q : r \in meta
    /\ confirmed \cup pendingQ \subseteq meta
    /\ alive => nextSeq = SealedCount

\* A restarted process that found a sealed chunk in the store.
C11_Witness == alive /\ lifecycle = "Ready" /\ SealedCount >= 1

\* C12: at every instant, and so whenever the capture process is killed, the
\* sealed chunks cover the recording time elapsed up to one chunk duration.
C12_KillLosesAtMostOneChunk == sealedDur >= elapsed - ChunkDuration

\* The process was killed after a seal, with audio in the buffer.
C12_Witness == ~alive /\ sealedDur > 0 /\ elapsed > sealedDur

\* C13: the reconciliation of a restart enqueues a chunk exactly when its
\* payload is in local storage and its sequence number is above every
\* sequence number the server has confirmed, and it reports exactly the
\* chunks the metadata references that are missing locally.
C13_ReconcileExact ==
    [][(~alive /\ alive') =>
          /\ \A q \in SeqNos :
                q \in pendingQ' <=> (q \in local /\ \A c \in confirmed : q > c)
          /\ \A q \in SeqNos : q \in gaps' <=> (q \in meta /\ q \notin local)]_vars

\* A restart that met a confirmed chunk, a chunk to re-enqueue and a gap.
C13_Witness ==
    alive /\ lifecycle = "Ready" /\ gaps # {} /\ pendingQ # {} /\ confirmed # {}

C16_GuardRedirectsExactly ==
    [][(pagePc = "loading" /\ <<pagePc, path>>' # <<pagePc, path>>) =>
          IF /\ TokenKey \notin storage
             /\ path \notin {Root, Onboard, <<"index.html">>}
             /\ ~(version = "new" /\ (path = <<"share">> \/ StartsWithDir(path, "share")))
          THEN path' = Onboard /\ pagePc' = "loading"
          ELSE path' = path /\ pagePc' = "ready"]_vars

\* A visitor without a token was sent to /onboard and stays there.
C16_Witness ==
    /\ lastNav = "guard"
    /\ path = Onboard
    /\ pagePc = "ready"
    /\ TokenKey \notin storage

\* C17: whenever the server call of a logout settles (success, error status
\* or rejection) the three session keys are gone and the location is '/'.
C17_LogoutAlwaysClears ==
    [][(pagePc = "logout" /\ pagePc' # "logout") =>
          /\ lastLogout' \in LogoutOutcomes
          /\ storage' \cap SessionKeys = {}
          /\ path' = Root
          /\ lastNav' = "logout"]_vars

\* A logout whose server call rejected, from a signed-in page off '/'.
C17_Witness ==
    /\ lastLogout = "rejected"
    /\ lastNav = "logout"
    /\ path = Root
    /\ storage = {}
    /\ pagePc = "ready"

\* C18: a request whose path starts with '/api/' is never taken into the
\* handler's cache lookup or fetch, is answered by the browser's own network
\* fetch and not by the worker, and no step puts an '/api/' path into a cache
\* or hands one to cache.put, whatever the caches hold.
C18_ApiBypassesCache ==
    /\ [][/\ fe' # NoFetch => ~StartsWithDir(fe'.path, "api")
          /\ (resp' # resp /\ StartsWithDir(resp'.path, "api"))
               => (resp'.by = "browser" /\ caches' = caches /\ putPending' = putPending)
          /\ \A p \in putPending' \ putPending : ~StartsWithDir(p, "api")
          /\ \A n \in DOMAIN caches' :
                \A p \in caches'[n] \ (IF n \in DOMAIN caches THEN caches[n] ELSE {}) :
                    ~StartsWithDir(p, "api")]_vars

\* An API request was answered by the network although a cache held an
\* entry for its path.
C18_Witness ==
    /\ resp # NoResp
    /\ resp.path = ApiPath
    /\ resp.by = "browser"
    /\ resp.net = "ok-basic"
    /\ Match(caches, ApiPath)

\* C19 (as stated): every navigation made while offline (its fetch rejects)
\* receives a page from the cache.
C19_EveryOfflineNavigationServed ==
    (resp # NoResp /\ resp.mode = "navigate" /\ resp.net = "rejects") => resp.by = "cache"

\* C19 (amended): a navigation request whose path does not start with
\* '/api/' is answered by the network whenever its fetch resolves; when the
\* fetch rejects it is answered from the cache, by the entry for the request
\* if a cache holds one and by the entry for '/' otherwise, and that entry
\* exists.
C19_NavigationNetworkFirst ==
    [][(resp' # resp /\ resp'.mode = "navigate" /\ ~StartsWithDir(resp'.path, "api")) =>
          IF resp'.net = "rejects"
          THEN /\ resp'.by = "cache"
               /\ resp'.entry = (IF Match(caches, resp'.path) THEN resp'.path ELSE Root)
               /\ Match(caches, resp'.entry)
          ELSE /\ resp'.by = "network"
               /\ resp'.entry = NoEntry]_vars

\* An offline navigation to a page that is not cached got the '/' page.
C19_Witness ==
    /\ resp # NoResp
    /\ resp.mode = "navigate"
    /\ resp.net = "rejects"
    /\ resp.path = <<"share", "abc">>
    /\ resp.by = "cache"
    /\ resp.entry = Root

\* C20: the current language is one of en, es, zh, hi, ar from the moment
\* i18n.js is evaluated and after every call of setLanguage, and whatever
\* setLanguage stores as the preference or applies to the document is one of
\* the five as well.
C20_LanguageAlwaysSupported ==
    /\ currentLang \in SUPPORTED_LANGS
    /\ [][/\ currentLang' \in SUPPORTED_LANGS
          /\ savedLang' # savedLang => savedLang' \in SUPPORTED_LANGS
          /\ docLang' # docLang => docLang' \in SUPPORTED_LANGS]_vars

\* setLanguage was given an unsupported value after a supported one: 'en' is
\* current, stored and applied.
C20_Witness ==
    /\ domReady
    /\ navLang = <<"Z", "H", "-", "c", "n">>
    /\ currentLang = En
    /\ savedLang = En
    /\ docLang = En
    /\ translations = <<"z", "h">>

\* C21: inside a drain a failed attempt (the fetch threw or the response was
\* not OK) only moves the loop to the next item it read: the drain stays
\* pending, its next step is the attempt for that next item, and its promise
\* resolves only after the last item's attempt.
C21_FailureDoesNotBlock ==
    [][\A d \in Drains :
          /\ (InFlight(d) /\ pc'[d] \notin {pc[d], "opendel"}) =>
                 /\ pc'[d] = "loop"
                 /\ idx'[d] = idx[d] + 1
                 /\ items'[d] = items[d]
                 /\ result'[d] = "pending"
          /\ (pc[d] = "loop" /\ idx[d] <= Len(items[d]) /\ pc'[d] # "loop") =>
                 /\ InFlight(d)'
                 /\ req'[d].audio = items[d][idx[d]].blob
          /\ (result[d] = "pending" /\ result'[d] = "resolved") =>
                 idx[d] > Len(items[d])]_vars

\* Chunk 1 of a session is being attempted in the drain in which the attempt
\* for chunk 0 of that session failed.
C21_Witness ==
    \E d \in Drains :
        /\ Alone(d)
        /\ InFlight(d)
        /\ idx[d] = 2
        /\ items[d][1].sessionUuid = items[d][2].sessionUuid
        /\ cooling = items[d][1].id
        /\ items[d][1].id \in DOMAIN offlineQueue
        /\ items[d][1].id \notin delPending
        /\ dbUp

\* C22: the request in flight for an entry goes to the chunk endpoint of the
\* session stored in that entry, carries the bearer token stored in that
\* entry and the blob of that entry, which is a chunk of that same session.
C22_OwnSessionAndToken ==
    \A d \in Drains :
        req[d] # NoRequest =>
            /\ req[d].url = <<"/api/session", CurItem(d).sessionUuid, "chunk">>
            /\ req[d].authorization = <<"Bearer", CurItem(d).token>>
            /\ req[d].audio = CurItem(d).blob
            /\ CurItem(d).id \in DOMAIN seqOf
            /\ seqOf[CurItem(d).id].session = req[d].url[2]
            /\ req[d].audio[1] = req[d].url[2]
            /\ req[d].authorization[2] = TokenOf(req[d].url[2])

\* A drain over entries of two sessions is sending the second one's chunk.
C22_Witness ==
    \E d \in Drains :
        /\ InFlight(d)
        /\ idx[d] = 2
        /\ items[d][1].sessionUuid # items[d][2].sessionUuid
        /\ req[d].url[2] = "sB"

\* C23: for a request that is neither a navigation nor under '/api/', the
\* handler's first step is the cache lookup; a hit is returned as the answer
\* with no fetch started, and a fetch is started, and a network response
\* given, only after a lookup that missed.
C23_CacheFirst ==
    [][/\ (fe = NoFetch /\ fe' # NoFetch /\ fe'.mode # "navigate") => fe'.stage = "match"
       /\ (fe.stage = "match" /\ fe' # fe) =>
              IF Match(caches, fe.path)
              THEN /\ fe' = NoFetch
                   /\ resp'.by = "cache"
                   /\ resp'.path = fe.path
                   /\ resp'.entry = fe.path
              ELSE /\ fe'.stage = "fetch"
                   /\ resp' = resp
       /\ (fe' # fe /\ fe'.stage = "fetch" /\ fe'.mode # "navigate") =>
              (fe.stage = "match" /\ ~Match(caches, fe.path))
       /\ (resp' # resp /\ resp'.mode # "navigate" /\ resp'.by \in {"network", "failed"}) =>
              (fe.stage = "fetch" /\ fe.path = resp'.path)]_vars

\* An asset that install did not precache was answered from the cache.
C23_Witness ==
    /\ resp # NoResp
    /\ resp.mode # "navigate"
    /\ resp.path = <<"static", "app.css">>
    /\ resp.by = "cache"
    /\ fe = NoFetch

\* C24: the handler hands a response to cache.put only in the step that
\* returns a 200 basic network response for that path; a step that returns
\* any other response changes neither a cache nor the pending puts; and once
\* the worker is active a cache gains an entry only from such a put.
C24_OnlyOkBasicCached ==
    [][/\ \A p \in putPending' \ putPending :
              /\ resp'.by = "network"
              /\ resp'.net = "ok-basic"
              /\ resp'.path = p
              /\ fe.stage = "fetch"
       /\ (resp' # resp /\ resp'.net # "ok-basic") =>
              (caches' = caches /\ putPending' = putPending)
       /\ swPhase = "active" =>
              \A n \in DOMAIN caches' :
                  \A p \in caches'[n] \ (IF n \in DOMAIN caches THEN caches[n] ELSE {}) :
                      n = CACHE_NAME /\ p \in putPending]_vars

\* A non-200 response was returned for an asset and nothing was cached.
C24_Witness ==
    /\ resp # NoResp
    /\ resp.mode # "navigate"
    /\ resp.by = "network"
    /\ resp.net = "not-200"
    /\ ~Match(caches, resp.path)
    /\ resp.path \notin putPending

\* C25: clients are claimed (the worker becomes active) only in a step
\* before which every delete the activation started has finished; at that
\* step no cache named other than CACHE_NAME exists; and from the end of
\* install to that step the current cache keeps existing with its contents.
C25_ActivateCleansOldCaches ==
    [][/\ (swPhase # "active" /\ swPhase' = "active") =>
              /\ \A n \in DOMAIN cleanup : cleanup[n] = "done"
              /\ DOMAIN caches' \subseteq {CACHE_NAME}
              /\ caches' = caches
       /\ (swPhase \in {"installed", "activating"} /\ CACHE_NAME \in DOMAIN caches) =>
              /\ CACHE_NAME \in DOMAIN caches'
              /\ caches'[CACHE_NAME] = caches[CACHE_NAME]]_vars

\* The worker is active after deleting an old cache; the current cache still
\* holds what it held before this worker installed and what install added.
C25_Witness ==
    /\ swPhase = "active"
    /\ OldCache \in DOMAIN cleanup
    /\ cleanup[OldCache] = "done"
    /\ DOMAIN caches = {CACHE_NAME}
    /\ STATIC_ASSETS \cup {ApiPath} \subseteq caches[CACHE_NAME]

C27_RemovedBeforeResolve ==
    [][\A d \in Drains :
          (Alone(d) /\ result[d] = "pending" /\ result'[d] = "resolved") =>
              Range(attempted[d]) \cap delPending = {}]_vars
====
